---- MODULE Spec2Model ----
(***************************************************************************)
(* The parallel time-marching controller of the 2D heat conduction solver  *)
(* (main.py): start-up, domain decomposition check, the time loop with its *)
(* collectives, error abort, periodic output and the one-time change of    *)
(* the north boundary condition on ignition.                               *)
(*                                                                         *)
(* One MPI process ("worker") per rank.  Every process runs main.py on its *)
(* own copy of every variable, so each program variable is a function of   *)
(* the rank.  Time is counted in whole time units; the text of a snapshot  *)
(* tag '{:f}'.format(t*1000) is represented by the number t*1000.          *)
(***************************************************************************)
EXTENDS Integers, Sequences, FiniteSets, TLC

\* ----------------------------------------------------------------- bounds
NWorkers == 2
MaxSteps == 2
MaxTime == 2
MaxOut == 2
MaxFiles == 3
MaxNodes == 6

\* ------------------------------------------------------ program constants
\* the factor 10**9 that turns the unused budget into an unreachable one
Huge == 1000000000
\* the factor of t in the snapshot tag '{:f}'.format(t*1000)
TagFactor == 1000
\* highest error code of Advance_Soln_Cond (1-time step .. 4-Species balance)
MaxErrCode == 4

\* the string 'None' of the input file, for a budget that is not given
None == 0 - 1

Workers == 0 .. (NWorkers - 1)
ErrCodes == 0 .. MaxErrCode
DtSet == {1, 2}
\* what the solver can leave in a tile: unreacted and cold, reacted (eta at
\* level 1, the ignition threshold), or hot (rho*vol*Cv is 2, so E = 2 is
\* temperature level 1)
TileStates == {[eta |-> 0, E |-> 0], [eta |-> 1, E |-> 0], [eta |-> 0, E |-> 2]}
NodeSet == {2, 3, 6}
BCKeys == {"bc_left_E", "bc_right_E", "bc_south_E", "bc_north_E"}

VARIABLES
    cfg,            \* settings / Sources of the input file, and proc_arrang
    pc,             \* position of each process in main.py
    BCs,            \* the BCs dictionary read from the input file
    solverBCs,      \* solver.BCs.BCs
    E, eta,         \* domain.E, domain.eta of the tile (level abstraction)
    etaG, TG,       \* eta, T: the arrays returned by compile_var
    t, nt, dt, err, tign,
    total_time_steps, total_time,
    output_data_t, output_data_nt, t_inc,
    BCs_changed,
    wave,           \* v_0, v_1, v, N
    saved,          \* calls of mpi.save_data, in order
    nGhost, nAdvance, \* completed update_ghosts / Advance_Soln_Cond calls
    stepDt,         \* the step size the solver agreed on for a step
    local_err,      \* history: the code Advance_Soln_Cond returned, kept
                    \* until the process has tested the global code
    ignitedAt,      \* history: first step, not aborted, at whose end the
                    \* ignition criterion held somewhere; 0 if none
    restartRun,     \* the "Restart from previous data" block of one process
    planar          \* a TwoDimPlanar object (GeomClasses.py)

vars == <<cfg, pc, BCs, solverBCs, E, eta, etaG, TG, t, nt, dt, err, tign,
          total_time_steps, total_time, output_data_t, output_data_nt, t_inc,
          BCs_changed, wave, saved, nGhost, nAdvance, stepDt,
          local_err, ignitedAt, restartRun, planar>>

\* ------------------------------------------------------------- arithmetic
RECURSIVE SumOver(_, _)
SumOver(f, S) ==
    IF S = {} THEN 0
    ELSE LET x == CHOOSE y \in S : TRUE IN f[x] + SumOver(f, S \ {x})

MaxOf(S) == CHOOSE x \in S : \A y \in S : y <= x
MinOf(S) == CHOOSE x \in S : \A y \in S : x <= y
Abs(x) == IF x < 0 THEN 0 - x ELSE x

\* a budget n*10**9 is kept as the pair <<n, 10**9>>, a plain one as <<n, 1>>
Plain(n) == <<n, 1>>
TimesHuge(n) == <<n, Huge>>
\* x < b[1]*b[2] for integers, without forming the product
LessThan(x, b) == (x \div b[2]) < b[1]

\* ---------------------------------------------------- domain decomposition
\* process arrangements rows x cols with rows*cols = size, as square as
\* the factorisation allows
Factorings == {a \in (1 .. NWorkers) \X (1 .. NWorkers) : a[1] * a[2] = NWorkers}
Arrangements ==
    {a \in Factorings : \A b \in Factorings : Abs(a[1] - a[2]) <= Abs(b[1] - b[2])}

Rows == cfg.proc_arrang[1]
Cols == cfg.proc_arrang[2]
RowOf(w) == w \div Cols
ColOf(w) == w % Cols
proc_left(w) == IF ColOf(w) > 0 THEN w - 1 ELSE 0 - 1
proc_right(w) == IF ColOf(w) < Cols - 1 THEN w + 1 ELSE 0 - 1
proc_bottom(w) == IF RowOf(w) > 0 THEN w - Cols ELSE 0 - 1
proc_top(w) == IF RowOf(w) < Rows - 1 THEN w + Cols ELSE 0 - 1
Neighbours(w) ==
    {proc_left(w), proc_right(w), proc_bottom(w), proc_top(w)} \cap Workers

\* err of MPI_discretize: the node counts are not tiled evenly, or a tile
\* has fewer than 2 nodes along an axis
MPI_discretize(w) ==
    IF \/ cfg.Nodes_x % Cols /= 0
       \/ cfg.Nodes_y % Rows /= 0
       \/ cfg.Nodes_x \div Cols < 2
       \/ cfg.Nodes_y \div Rows < 2
    THEN 1 ELSE 0

\* ----------------------------------------------------------- persistence
\* '{:f}'.format(t*1000)
FormatF(x) == x * TagFactor
\* float(time_max)/1000
ParseTag(tag) == tag \div TagFactor

Snapshot(w, tag, why) == [tag |-> tag, nt |-> nt[w], why |-> why]
save_data(w, tag, why) == Append(saved[w], Snapshot(w, tag, why))

\* ----------------------------------------------------------------- fields
TempFromConserv(w) == E[w] \div 2
amax(arr) == MaxOf({arr[w] : w \in Workers})
NoArray == [w \in Workers |-> 0]

\* ----------------------------------------------------------- configuration
\* a process that is not in the restart block; no TwoDimPlanar object
NoRestart == [pc |-> "none"]
NoPlanar == [pc |-> "none"]

InputBCs ==
    [bc_left_E |-> "left", bc_right_E |-> "right",
     bc_south_E |-> "south", bc_north_E |-> "north"]
NoBCs == [k \in BCKeys |-> "unset"]

Budgets ==
    {<<s, None>> : s \in 1 .. MaxSteps} \cup {<<None, tt>> : tt \in 1 .. MaxTime}

Settings ==
    {[Nodes_x |-> n, Nodes_y |-> n, proc_arrang |-> a,
      total_time_steps |-> b[1], total_time |-> b[2],
      Number_Data_Output |-> o, Ignition |-> <<f, 1>>, Source_Kim |-> k] :
        n \in NodeSet, a \in Arrangements, b \in Budgets, o \in 1 .. MaxOut,
        f \in {"eta", "Temp"}, k \in BOOLEAN}

\* the state of the processes at their start, for an input file of the set S
ProgramStart(S) ==
    /\ cfg \in S
    /\ pc = [w \in Workers |-> "start"]
    /\ BCs = [w \in Workers |-> InputBCs]
    /\ solverBCs = [w \in Workers |-> NoBCs]
    /\ E = [w \in Workers |-> 0]
    /\ eta = [w \in Workers |-> 0]
    /\ etaG = [w \in Workers |-> NoArray]
    /\ TG = [w \in Workers |-> NoArray]
    /\ t = [w \in Workers |-> 0]
    /\ nt = [w \in Workers |-> 0]
    /\ dt = [w \in Workers |-> 0]
    /\ err = [w \in Workers |-> 0]
    /\ tign = [w \in Workers |-> 0]
    /\ total_time_steps = [w \in Workers |-> Plain(cfg.total_time_steps)]
    /\ total_time = [w \in Workers |-> Plain(cfg.total_time)]
    /\ output_data_t = [w \in Workers |-> <<0, 1>>]
    /\ output_data_nt = [w \in Workers |-> 0]
    /\ t_inc = [w \in Workers |-> 0]
    /\ BCs_changed = [w \in Workers |-> FALSE]
    /\ wave = [w \in Workers |-> [v_0 |-> 0, v_1 |-> 0, v |-> 0, N |-> 0]]
    /\ saved = [w \in Workers |-> <<>>]
    /\ nGhost = [w \in Workers |-> 0]
    /\ nAdvance = [w \in Workers |-> 0]
    /\ stepDt = [step |-> 0, dt |-> 0]
    /\ local_err = [w \in Workers |-> 0]
    /\ ignitedAt = 0

ProgramInit == ProgramStart(Settings)

Init ==
    /\ ProgramInit
    /\ restartRun = NoRestart
    /\ planar = NoPlanar

\* ------------------------------------------------------------ collectives
\* comm.reduce(err, op=MPI.MAX, root=0): the value the root gets
comm_reduce_MAX(vals) == MaxOf({vals[w] : w \in Workers})
\* comm.bcast(x, root=0): every process gets the root's value
comm_bcast(rootval, w) == rootval
\* mpi.compile_var(var, domain): every process gets the full-domain array
compile_var(var) == [v \in Workers |-> var[v]]

AllAt(S) == \A w \in Workers : pc[w] \in S

\* ---------------------------------------------------------------- start-up
\* mutant: only rank 0 tests err
DiscretizeFailed_RootOnly(w) == w = 0 /\ MPI_discretize(w) > 0

\* if err>0: sys.exit(...)
DiscretizeFailed(w) == MPI_discretize(w) > 0

\* mpi.MPI_discretize, the exit on its error, create_var and the solver
\* built on copy.deepcopy(BCs)
Discretize(w) ==
    /\ pc[w] = "start"
    /\ IF DiscretizeFailed(w)
       THEN /\ pc' = [pc EXCEPT ![w] = "exited"]
            /\ UNCHANGED solverBCs
       ELSE /\ pc' = [pc EXCEPT ![w] = "initialise"]
            /\ solverBCs' = [solverBCs EXCEPT ![w] = BCs[w]]
    /\ UNCHANGED <<restartRun, planar>>
    /\ UNCHANGED <<cfg, BCs, E, eta, etaG, TG, t, nt, dt, err, tign,
                   total_time_steps, total_time, output_data_t, output_data_nt,
                   t_inc, BCs_changed, wave, saved, nGhost, nAdvance, stepDt,
                   local_err, ignitedAt>>

\* time_max='0.000000'
time_max == 0

\* initial fields, the first save_data, the clock and wave speed variables,
\* then the call dy=mpi.compile_var(domain.dY, domain)
Initialise(w) ==
    /\ pc[w] = "initialise"
    /\ E' = [E EXCEPT ![w] = 0]
    /\ saved' = [saved EXCEPT ![w] = save_data(w, time_max, "initial")]
    /\ t' = [t EXCEPT ![w] = ParseTag(time_max)]
    /\ nt' = [nt EXCEPT ![w] = 0]
    /\ tign' = [tign EXCEPT ![w] = 0]
    /\ wave' = [wave EXCEPT ![w] = [v_0 |-> 0, v_1 |-> 0, v |-> 0, N |-> 0]]
    /\ pc' = [pc EXCEPT ![w] = "c_dy"]
    /\ UNCHANGED <<restartRun, planar>>
    /\ UNCHANGED <<cfg, BCs, solverBCs, eta, etaG, TG, dt, err,
                   total_time_steps, total_time, output_data_t, output_data_nt,
                   t_inc, BCs_changed, nGhost, nAdvance, stepDt,
                   local_err, ignitedAt>>

\* the collective compile_var(domain.dY) completes on all processes
CompileVar_dY ==
    /\ AllAt({"c_dy"})
    /\ pc' = [w \in Workers |-> "setup"]
    /\ UNCHANGED <<restartRun, planar>>
    /\ UNCHANGED <<cfg, BCs, solverBCs, E, eta, etaG, TG, t, nt, dt, err, tign,
                   total_time_steps, total_time, output_data_t, output_data_nt,
                   t_inc, BCs_changed, wave, saved, nGhost, nAdvance, stepDt,
                   local_err, ignitedAt>>

\* int(t/output_data_t)+1 with output_data_t = total_time/Number_Data_Output
FirstInterval(w) == ((t[w] * cfg.Number_Data_Output) \div cfg.total_time) + 1

\* mutant: the step-count interval starts at 1
UnsetIntervals_StepSet == [output_data_t |-> <<0, 1>>, output_data_nt |-> 1]

\* output_data_t,output_data_nt=0,0
UnsetIntervals == [output_data_t |-> <<0, 1>>, output_data_nt |-> 0]

\* "Setup intervals to save data", "Ignition conditions", BCs_changed=False
SetupIntervals(w) ==
    /\ pc[w] = "setup"
    /\ IF cfg.total_time_steps = None
       THEN /\ output_data_t' = [output_data_t EXCEPT
                   ![w] = <<cfg.total_time, cfg.Number_Data_Output>>]
            /\ total_time_steps' = [total_time_steps EXCEPT
                   ![w] = TimesHuge(cfg.total_time)]
            /\ total_time' = [total_time EXCEPT ![w] = Plain(cfg.total_time)]
            /\ t_inc' = [t_inc EXCEPT ![w] = FirstInterval(w)]
            /\ output_data_nt' = [output_data_nt EXCEPT
                   ![w] = UnsetIntervals.output_data_nt]
       ELSE /\ output_data_nt' = [output_data_nt EXCEPT
                   ![w] = cfg.total_time_steps \div cfg.Number_Data_Output]
            /\ total_time' = [total_time EXCEPT
                   ![w] = TimesHuge(cfg.total_time_steps)]
            /\ total_time_steps' = [total_time_steps EXCEPT
                   ![w] = Plain(cfg.total_time_steps)]
            /\ t_inc' = [t_inc EXCEPT ![w] = 0]
            /\ output_data_t' = [output_data_t EXCEPT
                   ![w] = UnsetIntervals.output_data_t]
    /\ BCs_changed' = [BCs_changed EXCEPT ![w] = FALSE]
    /\ pc' = [pc EXCEPT ![w] = "loop"]
    /\ UNCHANGED <<restartRun, planar>>
    /\ UNCHANGED <<cfg, BCs, solverBCs, E, eta, etaG, TG, t, nt, dt, err, tign,
                   wave, saved, nGhost, nAdvance, stepDt,
                   local_err, ignitedAt>>

\* ---------------------------------------------------------------- time loop
Kim == cfg.Source_Kim

\* mutant: the budgets are tested with <=
LoopCond_Inclusive(w) ==
    /\ LessThan(nt[w] - 1, total_time_steps[w])
    /\ LessThan(t[w] - 1, total_time[w])

\* while nt<settings['total_time_steps'] and t<settings['total_time']
LoopCond(w) ==
    /\ LessThan(nt[w], total_time_steps[w])
    /\ LessThan(t[w], total_time[w])

\* mutant: the first sample, compile_var included, is taken on rank 0 only
FirstPointDue_RootOnly(w) == cfg.Source_Kim /\ BCs_changed[w] /\ w = 0

\* if st.find(Sources['Source_Kim'],'True')>=0 and BCs_changed: (first point)
FirstPointDue(w) == Kim /\ BCs_changed[w]

\* mutant: the ghost exchange is made only on the way from the first sample
AfterLoopTop_NoExchange(w) ==
    IF cfg.Source_Kim /\ BCs_changed[w] THEN "c_eta0" ELSE "advance"

\* where the loop body starts: the first speed sample when due, then the
\* ghost exchange
AfterLoopTop(w) == IF FirstPointDue(w) THEN "c_eta0" ELSE "ghosts"

\* the loop test; a process that enters the body calls compile_var(eta) or
\* update_ghosts, one that leaves goes to the reporting after the loop
LoopTop(w) ==
    /\ pc[w] = "loop"
    /\ pc' = [pc EXCEPT ![w] = IF LoopCond(w) THEN AfterLoopTop(w) ELSE "report"]
    /\ UNCHANGED <<restartRun, planar>>
    /\ UNCHANGED <<cfg, BCs, solverBCs, E, eta, etaG, TG, t, nt, dt, err, tign,
                   total_time_steps, total_time, output_data_t, output_data_nt,
                   t_inc, BCs_changed, wave, saved, nGhost, nAdvance, stepDt,
                   local_err, ignitedAt>>

\* v_0=np.sum(eta*dy)/len(eta[0,:]) with dy = 1; kept as the numerator over
\* the number of tile columns
FirstSample(arr) == SumOver(arr, Workers)
\* v_1=np.sum(eta[:,mid]*dy[:,mid]), mid = int(len(eta[0,:])/2); kept over
\* the same denominator
MidColumn == {w \in Workers : ColOf(w) = Cols \div 2}
SecondSample(arr) == Cols * SumOver(arr, MidColumn)

\* the collective compile_var(domain.eta) completes on all processes: the one
\* before the ghost exchange (rank 0 then takes v_0) or the one of the
\* ignition check
CompileVar_eta ==
    /\ AllAt({"c_eta0", "c_eta"})
    /\ etaG' = [w \in Workers |-> compile_var(eta)]
    /\ wave' = [w \in Workers |->
                  IF pc[w] = "c_eta0" /\ w = 0
                  THEN [wave[w] EXCEPT !.v_0 = FirstSample(compile_var(eta))]
                  ELSE wave[w]]
    /\ pc' = [w \in Workers |-> IF pc[w] = "c_eta0" THEN "ghosts" ELSE "ign"]
    /\ UNCHANGED <<restartRun, planar>>
    /\ UNCHANGED <<cfg, BCs, solverBCs, E, eta, TG, t, nt, dt, err, tign,
                   total_time_steps, total_time, output_data_t, output_data_nt,
                   t_inc, BCs_changed, saved, nGhost, nAdvance, stepDt,
                   local_err, ignitedAt>>

\* a neighbour has entered the exchange this process is in
Posted(v, w) == nGhost[v] > nGhost[w] \/ (nGhost[v] = nGhost[w] /\ pc[v] = "ghosts")

\* mpi.update_ghosts(domain) returns once every live neighbour has exchanged
UpdateGhosts(w) ==
    /\ pc[w] = "ghosts"
    /\ \A v \in Neighbours(w) : Posted(v, w)
    /\ nGhost' = [nGhost EXCEPT ![w] = @ + 1]
    /\ pc' = [pc EXCEPT ![w] = "advance"]
    /\ UNCHANGED <<restartRun, planar>>
    /\ UNCHANGED <<cfg, BCs, solverBCs, E, eta, etaG, TG, t, nt, dt, err, tign,
                   total_time_steps, total_time, output_data_t, output_data_nt,
                   t_inc, BCs_changed, wave, saved, nAdvance, stepDt,
                   local_err, ignitedAt>>

\* err,dt=solver.Advance_Soln_Cond(...); t+=dt; nt+=1; then the call of
\* comm.reduce.  The solver is external: any error code, any new tile state,
\* and a step size that all processes of a step share
Advance(w) ==
    /\ pc[w] = "advance"
    /\ \E e \in ErrCodes, d \in DtSet, tile \in TileStates :
          /\ stepDt.step = nt[w] + 1 => d = stepDt.dt
          /\ stepDt' = [step |-> nt[w] + 1, dt |-> d]
          /\ err' = [err EXCEPT ![w] = e]
          /\ local_err' = [local_err EXCEPT ![w] = e]
          /\ dt' = [dt EXCEPT ![w] = d]
          /\ eta' = [eta EXCEPT ![w] = tile.eta]
          /\ E' = [E EXCEPT ![w] = tile.E]
          /\ t' = [t EXCEPT ![w] = @ + d]
    /\ nt' = [nt EXCEPT ![w] = @ + 1]
    /\ nAdvance' = [nAdvance EXCEPT ![w] = @ + 1]
    /\ pc' = [pc EXCEPT ![w] = "c_err"]
    /\ UNCHANGED <<restartRun, planar>>
    /\ UNCHANGED <<cfg, BCs, solverBCs, etaG, TG, tign,
                   total_time_steps, total_time, output_data_t, output_data_nt,
                   t_inc, BCs_changed, wave, saved, nGhost, ignitedAt>>

\* the configured ignition criterion on the fields the tiles hold now
CriterionHolds ==
    \/ (cfg.Ignition[1] = "eta" /\ \E w \in Workers : eta[w] >= cfg.Ignition[2])
    \/ (cfg.Ignition[1] = "Temp"
          /\ \E w \in Workers : TempFromConserv(w) >= cfg.Ignition[2])

\* mutant: the reduction takes the minimum
GlobalErr_Min(w) == comm_bcast(MinOf({err[v] : v \in Workers}), w)

\* err=comm.reduce(err, op=MPI.MAX, root=0); err=comm.bcast(err, root=0)
GlobalErr(w) == comm_bcast(comm_reduce_MAX(err), w)

ErrReduceBcast ==
    /\ AllAt({"c_err"})
    /\ err' = [w \in Workers |-> GlobalErr(w)]
    /\ pc' = [w \in Workers |-> "check"]
    /\ ignitedAt' = IF ignitedAt = 0 /\ CriterionHolds
                        /\ \A w \in Workers : local_err[w] = 0
                     THEN stepDt.step ELSE ignitedAt
    /\ UNCHANGED <<restartRun, planar>>
    /\ UNCHANGED <<cfg, BCs, solverBCs, E, eta, etaG, TG, t, nt, dt, tign,
                   total_time_steps, total_time, output_data_t, output_data_nt,
                   t_inc, BCs_changed, wave, saved, nGhost, nAdvance, stepDt,
                   local_err>>

\* t>=output_data_t*t_inc and t-dt<output_data_t*t_inc, output_data_t being
\* the quotient output_data_t[1]/output_data_t[2]
CrossedInterval(w) ==
    /\ t[w] * output_data_t[w][2] >= output_data_t[w][1] * t_inc[w]
    /\ (t[w] - dt[w]) * output_data_t[w][2] < output_data_t[w][1] * t_inc[w]

\* (output_data_nt!=0 and nt%output_data_nt==0)
DueBySteps(w) == output_data_nt[w] /= 0 /\ nt[w] % output_data_nt[w] = 0
\* (output_data_t!=0 and (t>=output_data_t*t_inc and t-dt<output_data_t*t_inc))
DueByTime(w) == output_data_t[w][1] /= 0 /\ CrossedInterval(w)

\* mutant: the periodic output is written in every step
OutputDue_Always(w) == TRUE

OutputDue(w) == DueBySteps(w) \/ DueByTime(w)

\* the tag of the snapshots written in the loop
LoopTag(w) == FormatF(t[w])

\* mutant: no break after the abort snapshot
AfterAbort_NoBreak(w) == "c_T"

\* where a process goes after the abort snapshot: break
AfterAbort(w) == "report"

\* if err>0: save_data and break; otherwise the periodic output, then the
\* call T=mpi.compile_var(domain.TempFromConserv(vol), domain)
CheckError(w) ==
    /\ pc[w] = "check"
    /\ IF err[w] > 0
       THEN /\ saved' = [saved EXCEPT ![w] = save_data(w, LoopTag(w), "abort")]
            /\ pc' = [pc EXCEPT ![w] = AfterAbort(w)]
            /\ UNCHANGED t_inc
       ELSE /\ IF OutputDue(w)
               THEN /\ saved' = [saved EXCEPT
                          ![w] = save_data(w, LoopTag(w), "periodic")]
                    /\ t_inc' = [t_inc EXCEPT ![w] = @ + 1]
               ELSE UNCHANGED <<saved, t_inc>>
            /\ pc' = [pc EXCEPT ![w] = "c_T"]
    /\ local_err' = [local_err EXCEPT ![w] = 0]
    /\ UNCHANGED <<restartRun, planar>>
    /\ UNCHANGED <<cfg, BCs, solverBCs, E, eta, etaG, TG, t, nt, dt, err, tign,
                   total_time_steps, total_time, output_data_t, output_data_nt,
                   BCs_changed, wave, nGhost, nAdvance, stepDt, ignitedAt>>

\* the collective compile_var(domain.TempFromConserv(vol)) completes
CompileVar_T ==
    /\ AllAt({"c_T"})
    /\ TG' = [w \in Workers |-> compile_var([v \in Workers |-> TempFromConserv(v)])]
    /\ pc' = [w \in Workers |-> "c_eta"]
    /\ UNCHANGED <<restartRun, planar>>
    /\ UNCHANGED <<cfg, BCs, solverBCs, E, eta, etaG, t, nt, dt, err, tign,
                   total_time_steps, total_time, output_data_t, output_data_nt,
                   t_inc, BCs_changed, wave, saved, nGhost, nAdvance, stepDt,
                   local_err, ignitedAt>>

\* mutant: the thresholds are compared with > instead of >=
IgnitionMet_Strict(w) ==
    \/ (cfg.Ignition[1] = "eta" /\ amax(etaG[w]) > cfg.Ignition[2])
    \/ (cfg.Ignition[1] = "Temp" /\ amax(TG[w]) > cfg.Ignition[2])

\* ((Ignition[0]=='eta' and np.amax(eta)>=Ignition[1]) or
\*  (Ignition[0]=='Temp' and np.amax(T)>=Ignition[1])) and not BCs_changed
IgnitionMet(w) ==
    \/ (cfg.Ignition[1] = "eta" /\ amax(etaG[w]) >= cfg.Ignition[2])
    \/ (cfg.Ignition[1] = "Temp" /\ amax(TG[w]) >= cfg.Ignition[2])

SwitchDue(w) == IgnitionMet(w) /\ ~BCs_changed[w]

\* mutant: the north BC is overwritten on every process
NorthAfterSwitch_AllWorkers(w) == BCs[w].bc_right_E

\* if domain.proc_top<0: solver.BCs.BCs['bc_north_E']=BCs['bc_right_E']
NorthAfterSwitch(w) ==
    IF proc_top(w) < 0 THEN BCs[w].bc_right_E ELSE solverBCs[w].bc_north_E

\* mutant: the flag is not set in the branch
FlagAfterSwitch_NotSet(w) == BCs_changed[w]

\* BCs_changed=True
FlagAfterSwitch(w) == TRUE

\* "Change boundary conditions": on ignition the north BC, tign on rank 0,
\* a snapshot, BCs_changed=True and the call of comm.bcast
ChangeBCs(w) ==
    /\ pc[w] = "ign"
    /\ IF SwitchDue(w)
       THEN /\ solverBCs' = [solverBCs EXCEPT ![w].bc_north_E = NorthAfterSwitch(w)]
            /\ tign' = [tign EXCEPT ![w] = IF w = 0 THEN t[w] ELSE @]
            /\ saved' = [saved EXCEPT ![w] = save_data(w, LoopTag(w), "ignition")]
            /\ BCs_changed' = [BCs_changed EXCEPT ![w] = FlagAfterSwitch(w)]
            /\ pc' = [pc EXCEPT ![w] = "c_bc"]
       ELSE /\ pc' = [pc EXCEPT ![w] = "speed"]
            /\ UNCHANGED <<solverBCs, tign, saved, BCs_changed>>
    /\ UNCHANGED <<restartRun, planar>>
    /\ UNCHANGED <<cfg, BCs, E, eta, etaG, TG, t, nt, dt, err,
                   total_time_steps, total_time, output_data_t, output_data_nt,
                   t_inc, wave, nGhost, nAdvance, stepDt,
                   local_err, ignitedAt>>

\* mutant: no broadcast, the flag stays with the processes that changed a BC
FlagAfterBcast_Local(w) == BCs_changed[w] /\ proc_top(w) < 0

\* BCs_changed=comm.bcast(BCs_changed, root=0)
FlagAfterBcast(w) == comm_bcast(BCs_changed[0], w)

BcastBCsChanged ==
    /\ AllAt({"c_bc"})
    /\ BCs_changed' = [w \in Workers |-> FlagAfterBcast(w)]
    /\ pc' = [w \in Workers |-> "speed"]
    /\ UNCHANGED <<restartRun, planar>>
    /\ UNCHANGED <<cfg, BCs, solverBCs, E, eta, etaG, TG, t, nt, dt, err, tign,
                   total_time_steps, total_time, output_data_t, output_data_nt,
                   t_inc, wave, saved, nGhost, nAdvance, stepDt,
                   local_err, ignitedAt>>

\* if (v_1-v_0)/dt>0.001: v+=(v_1-v_0)/dt; N+=1, with v_0 and v_1 over the
\* number of tile columns and v over twice that number
SpeedUpdate(w) ==
    LET v1 == SecondSample(etaG[w])
        diff == v1 - wave[w].v_0
    IN  IF diff * 1000 > Cols * dt[w]
        THEN [v_0 |-> wave[w].v_0, v_1 |-> v1,
              v |-> wave[w].v + diff * (2 \div dt[w]), N |-> wave[w].N + 1]
        ELSE [wave[w] EXCEPT !.v_1 = v1]

\* "Second point in calculating combustion propagation speed", end of body
SecondSpeedPoint(w) ==
    /\ pc[w] = "speed"
    /\ wave' = [wave EXCEPT ![w] =
                  IF Kim /\ BCs_changed[w] /\ w = 0 THEN SpeedUpdate(w) ELSE @]
    /\ pc' = [pc EXCEPT ![w] = "loop"]
    /\ UNCHANGED <<restartRun, planar>>
    /\ UNCHANGED <<cfg, BCs, solverBCs, E, eta, etaG, TG, t, nt, dt, err, tign,
                   total_time_steps, total_time, output_data_t, output_data_nt,
                   t_inc, BCs_changed, saved, nGhost, nAdvance, stepDt,
                   local_err, ignitedAt>>

\* the reporting after the loop; the process ends
Report(w) ==
    /\ pc[w] = "report"
    /\ pc' = [pc EXCEPT ![w] = "done"]
    /\ UNCHANGED <<restartRun, planar>>
    /\ UNCHANGED <<cfg, BCs, solverBCs, E, eta, etaG, TG, t, nt, dt, err, tign,
                   total_time_steps, total_time, output_data_t, output_data_nt,
                   t_inc, BCs_changed, wave, saved, nGhost, nAdvance, stepDt,
                   local_err, ignitedAt>>

Next ==
    \/ \E w \in Workers : Discretize(w)
    \/ \E w \in Workers : Initialise(w)
    \/ CompileVar_dY
    \/ \E w \in Workers : SetupIntervals(w)
    \/ \E w \in Workers : LoopTop(w)
    \/ CompileVar_eta
    \/ \E w \in Workers : UpdateGhosts(w)
    \/ \E w \in Workers : Advance(w)
    \/ ErrReduceBcast
    \/ \E w \in Workers : CheckError(w)
    \/ CompileVar_T
    \/ \E w \in Workers : ChangeBCs(w)
    \/ BcastBCsChanged
    \/ \E w \in Workers : SecondSpeedPoint(w)
    \/ \E w \in Workers : Report(w)

Spec == Init /\ [][Next]_vars

\* every process keeps running while it can take a step: a process blocked
\* in a collective or an exchange waits for the others, which run too
FairSpec == Spec /\ WF_vars(Next)

\* input files with an elapsed-time budget and an output interval
\* total_time/Number_Data_Output of half the smallest step size
FineOutputSettings ==
    {[Nodes_x |-> 6, Nodes_y |-> 6, proc_arrang |-> a,
      total_time_steps |-> None, total_time |-> MaxTime,
      Number_Data_Output |-> 2 * MaxTime, Ignition |-> <<f, 1>>,
      Source_Kim |-> k] :
        a \in Arrangements, f \in {"eta", "Temp"}, k \in BOOLEAN}

FineOutputInit ==
    /\ ProgramStart(FineOutputSettings)
    /\ restartRun = NoRestart
    /\ planar = NoPlanar

\* the program on these input files
FineOutputSpec == FineOutputInit /\ [][Next]_vars

\* ============================================ restart from previous data
\* the variables of the time-marching program, which the restart block and
\* the geometry class leave alone
progvars == <<cfg, pc, BCs, solverBCs, E, eta, etaG, TG, t, nt, dt, err, tign,
              total_time_steps, total_time, output_data_t, output_data_nt,
              t_inc, BCs_changed, wave, saved, nGhost, nAdvance, stepDt,
              local_err, ignitedAt>>

\* a single configuration of the program while it is not the subject
IdleProgram == ProgramInit /\ cfg = CHOOSE c \in Settings : TRUE

\* ------------------------------------------------------------------ text
\* a text is the sequence of its characters
Digits == <<"0", "1", "2", "3", "4", "5", "6", "7", "8", "9">>
DigitVal(c) == CHOOSE d \in 0 .. 9 : Digits[d + 1] = c
\* the number of decimals '{:f}' prints, as the power of ten
Mega == 1000000

\* str(n) of a non-negative int
RECURSIVE str(_)
str(n) == IF n < 10 THEN <<Digits[n + 1]>>
          ELSE str(n \div 10) \o <<Digits[(n % 10) + 1]>>

\* int of a text of digits
RECURSIVE Num(_)
Num(s) == IF Len(s) = 0 THEN 0
          ELSE 10 * Num(SubSeq(s, 1, Len(s) - 1)) + DigitVal(s[Len(s)])

\* '{:f}'.format(x) of x = m/10**6, m >= 0: the integer part, a point and
\* six decimals
TagText(m) ==
    LET frac == str(m % Mega)
    IN  str(m \div Mega) \o <<".">> \o [k \in 1 .. (6 - Len(frac)) |-> "0"] \o frac

\* sub occurs in s at the 0-based position k
Occurs(s, sub, k) ==
    k + Len(sub) <= Len(s) /\ SubSeq(s, k + 1, k + Len(sub)) = sub

\* st.find(s, sub): the lowest position of sub in s, or -1
find(s, sub) ==
    IF \E k \in 0 .. Len(s) : Occurs(s, sub, k)
    THEN MinOf({k \in 0 .. Len(s) : Occurs(s, sub, k)})
    ELSE 0 - 1

\* st.split(s, sep)
RECURSIVE split(_, _)
split(s, sep) ==
    LET k == find(s, sep)
    IN  IF k < 0 THEN <<s>>
        ELSE <<SubSeq(s, 1, k)>> \o split(SubSeq(s, k + Len(sep) + 1, Len(s)), sep)

\* float(text) of a text with six decimals, as the numerator over 10**6
float(text) ==
    LET parts == split(text, <<".">>)
    IN  Num(parts[1]) * Mega + Num(parts[2])

\* '.npy', and the file 'T_'+tag+'.npy' that save_data writes for a tag
Npy == <<".", "n", "p", "y">>
FileT(tag) == <<"T", "_">> \o tag \o Npy
FileEta(tag) == <<"e", "t", "a", "_">> \o tag \o Npy
FileX == <<"X">> \o Npy

\* ------------------------------------------------------------ directory
\* times t*1000 of persisted snapshots, in millionths: 0, 0.5, 1, 10 and 12
SnapshotTimes == {0, 500000, 1000000, 10000000, 12000000}
\* settings['Restart']: an int marker, or the text 'None'
Markers == {None, 1, 2, 5}

FileNames ==
    {FileT(TagText(m)) : m \in SnapshotTimes}
        \cup {FileEta(TagText(1000000)), FileX}

\* os.listdir('.'): the files of the directory in arbitrary order
Listings ==
    UNION {{l \in [1 .. n -> FileNames] : \A a, b \in 1 .. n : a /= b => l[a] /= l[b]} :
              n \in 0 .. MaxFiles}

Range(l) == {l[k] : k \in 1 .. Len(l)}

RestartInit ==
    /\ IdleProgram
    /\ planar = NoPlanar
    /\ \E m \in Markers, l \in Listings :
          restartRun = [pc |-> "restart", Restart |-> m, dir |-> Range(l),
                        listing |-> l, times |-> <<>>, i |-> 0, j |-> 0,
                        time_max |-> TagText(0), T |-> <<>>, t |-> <<0, 1>>]

\* time_max='0.000000'; if type(settings['Restart']) is int:
\* times=os.listdir('.'); i=len(times); if i<2: sys.exit(...); j=0
ListDir ==
    /\ restartRun.pc = "restart"
    /\ restartRun' =
          IF restartRun.Restart = None
          THEN [restartRun EXCEPT !.pc = "initialised"]
          ELSE IF Len(restartRun.listing) < 2
          THEN [restartRun EXCEPT !.pc = "exited", !.times = restartRun.listing,
                                  !.i = Len(restartRun.listing)]
          ELSE [restartRun EXCEPT !.pc = "scan", !.times = restartRun.listing,
                                  !.i = Len(restartRun.listing), !.j = 0]
    /\ UNCHANGED <<progvars, planar>>

\* st.find(times[j],'T')==0 and st.find(times[j],'.npy')>0
\*     and st.find(times[j],str(settings['Restart']))>=0
Matches(name, marker) ==
    /\ find(name, <<"T">>) = 0
    /\ find(name, Npy) > 0
    /\ find(name, str(marker)) >= 0

\* st.split(st.split(times[j],'_')[1],'.npy')[0]
TagOf(name) == split(split(name, <<"_">>)[2], Npy)[1]

\* del times[j]
Del(l, k) == SubSeq(l, 1, k - 1) \o SubSeq(l, k + 1, Len(l))

\* one pass of "while i>j:"; times[j] is element j+1 of the sequence
ScanStep ==
    /\ restartRun.pc = "scan"
    /\ LET r == restartRun
           name == r.times[r.j + 1]
       IN  restartRun' =
             IF ~(r.i > r.j) THEN [r EXCEPT !.pc = "load"]
             ELSE IF Matches(name, r.Restart)
             THEN [r EXCEPT !.times[r.j + 1] = TagOf(name),
                            !.time_max = TagOf(name),
                            !.j = r.j + 1, !.pc = "load"]
             ELSE [r EXCEPT !.times = Del(r.times, r.j + 1), !.i = r.i - 1]
    /\ UNCHANGED <<progvars, planar>>

\* T=np.load('T_'+time_max+'.npy'): an IOError ends the program when the
\* file is not there
LoadT ==
    /\ restartRun.pc = "load"
    /\ restartRun' =
          IF FileT(restartRun.time_max) \in restartRun.dir
          THEN [restartRun EXCEPT !.T = restartRun.time_max, !.pc = "initialised"]
          ELSE [restartRun EXCEPT !.pc = "ioerror"]
    /\ UNCHANGED <<progvars, planar>>

\* t,nt,tign=float(time_max)/1000,0,0: t as numerator and denominator
ClockFromTag(tag) == <<float(tag), Mega * TagFactor>>

StartClock ==
    /\ restartRun.pc = "initialised"
    /\ restartRun' = [restartRun EXCEPT !.t = ClockFromTag(restartRun.time_max),
                                        !.pc = "solve"]
    /\ UNCHANGED <<progvars, planar>>

RestartNext == ListDir \/ ScanStep \/ LoadT \/ StartClock

RestartSpec == RestartInit /\ [][RestartNext]_vars

\* ================================================= TwoDimPlanar (geometry)
\* Lengths are exact multiples of 1/Scale of the unit of length, so that the
\* divisions of mesh() are exact; the text's floating tolerance is exactness
\* here.  An array of Nx or Ny numbers is a sequence, element k of the code
\* being element k+1; a field is a function of <<row, column>>.
Scale == 3600

BiasTypes == {"OneWayUp", "OneWayDown", "TwoWayEnd", "TwoWayMid", "None"}
\* settings['bias_size_x'], settings['bias_size_y']: the smallest element
BiasSize == Scale \div 10
\* settings['Length'], settings['Width']
Length == Scale
Width == 2 * Scale
NodeCounts == 3 .. MaxNodes
\* a property given as a number, or as the text 'eta,v0,v1' of a blend
PropSettings == {[str |-> FALSE, v |-> 2], [str |-> TRUE, v0 |-> 1, v1 |-> 3]}
\* reaction progress of the material (0 after construction) and temperatures
EtaLevels == {0, 1}
Temperatures == {1, 2}

zeros(n) == [k \in 1 .. n |-> 0]
Nodes(o) == (1 .. o.Ny) \X (1 .. o.Nx)

\* TwoDimPlanar.__init__
NewPlanar(nx, ny, bx, by, rho, Cv, e) ==
    [pc |-> "constructed", L |-> Length, W |-> Width, Nx |-> nx, Ny |-> ny,
     xbias |-> <<bx, BiasSize>>, ybias |-> <<by, BiasSize>>,
     k |-> [str |-> FALSE, v |-> 1], rho |-> rho, Cv |-> Cv,
     x |-> zeros(nx), y |-> zeros(ny), dx |-> zeros(nx), dy |-> zeros(ny),
     eta |-> e, E |-> [n \in (1 .. ny) \X (1 .. nx) |-> 0], isMeshed |-> FALSE,
     vol |-> <<>>, T0 |-> 0, T |-> <<>>, raised |-> "none"]

GeomInit ==
    /\ IdleProgram
    /\ restartRun = NoRestart
    /\ \E nx \in NodeCounts, ny \in NodeCounts, bx \in BiasTypes, by \in BiasTypes,
          rho \in PropSettings, Cv \in PropSettings, e \in EtaLevels :
          planar = NewPlanar(nx, ny, bx, by, rho, Cv, e)

\* np.linspace(a, b, n)
linspace(a, b, n) ==
    IF n <= 0 THEN <<>>
    ELSE IF n = 1 THEN <<a>>
    ELSE [k \in 1 .. n |-> a + ((k - 1) * (b - a)) \div (n - 1)]

\* arr[lo:hi]=vals of numpy, 0 <= lo, hi <= len(arr): vals of the length of
\* the slice are copied, one value is broadcast, anything else raises
\* ValueError
SetSlice(arr, lo, hi, vals) ==
    LET m == IF hi > lo THEN hi - lo ELSE 0
    IN  IF Len(vals) = m
        THEN [raised |-> "none",
              arr |-> [k \in 1 .. Len(arr) |->
                         IF lo < k /\ k <= hi THEN vals[k - lo] ELSE arr[k]]]
        ELSE IF Len(vals) = 1
        THEN [raised |-> "none",
              arr |-> [k \in 1 .. Len(arr) |->
                         IF lo < k /\ k <= hi THEN vals[1] ELSE arr[k]]]
        ELSE [raised |-> "ValueError", arr |-> arr]

\* self.dx[-1]=self.dx[-2], when the slice assignments before it went through
CopyLast(r) ==
    IF r.raised /= "none" THEN r
    ELSE [r EXCEPT !.arr[Len(r.arr)] = r.arr[Len(r.arr) - 1]]

\* the "Discretize x" / "Discretize y" part of mesh() for an axis of length
\* len with n nodes; (n-1)/2 and int(n/2) are the integer divisions of
\* Python 2
DiscretizeAxis(len, n, bias, d) ==
    LET smallest == bias[2]
        largest == (2 * len) \div (n - 1) - smallest
        half == (n - 1) \div 2
        mid == n \div 2
        TwoWay(a, b) ==
            LET first == SetSlice(d, 0, mid, linspace(a, b, half))
            IN  IF first.raised /= "none" THEN first
                ELSE CopyLast(SetSlice(first.arr, mid, n - 1, linspace(b, a, half)))
    IN  CASE bias[1] = "OneWayUp" ->
               CopyLast(SetSlice(d, 0, n - 1, linspace(largest, smallest, n - 1)))
          [] bias[1] = "OneWayDown" ->
               CopyLast(SetSlice(d, 0, n - 1, linspace(smallest, largest, n - 1)))
          [] bias[1] = "TwoWayEnd" -> TwoWay(smallest, largest)
          [] bias[1] = "TwoWayMid" -> TwoWay(largest, smallest)
          [] OTHER -> [raised |-> "none", arr |-> [k \in 1 .. n |-> len \div (n - 1)]]

\* for i in range(N-1): x[i+1]=x[i]+dx[i]
RECURSIVE Coordinates(_, _, _)
Coordinates(x, d, i) ==
    IF i >= Len(x) THEN x
    ELSE Coordinates([x EXCEPT ![i + 1] = x[i] + d[i]], d, i + 1)

\* TwoDimPlanar.mesh
mesh ==
    /\ planar.pc = "constructed"
    /\ LET o == planar
           rx == DiscretizeAxis(o.L, o.Nx, o.xbias, o.dx)
           ry == DiscretizeAxis(o.W, o.Ny, o.ybias, o.dy)
       IN  planar' =
             IF rx.raised /= "none"
             THEN [o EXCEPT !.raised = rx.raised, !.pc = "error"]
             ELSE IF ry.raised /= "none"
             THEN [o EXCEPT !.dx = rx.arr, !.raised = ry.raised, !.pc = "error"]
             ELSE [o EXCEPT !.dx = rx.arr, !.dy = ry.arr,
                            !.x = Coordinates(o.x, rx.arr, 1),
                            !.y = Coordinates(o.y, ry.arr, 1),
                            !.isMeshed = TRUE, !.pc = "meshed"]
    /\ UNCHANGED <<progvars, restartRun>>

\* mutant: every node is given the interior formula, the index before the
\* first wrapping around to the last
CV_vol_Wrap(o) ==
    [n \in Nodes(o) |->
        LET i == n[1]
            j == n[2]
            jm == IF j = 1 THEN o.Nx ELSE j - 1
            im == IF i = 1 THEN o.Ny ELSE i - 1
        IN  (o.dx[j] + o.dx[jm]) * (o.dy[i] + o.dy[im])]

\* TwoDimPlanar.CV_vol: the array v, times 4.  dx[i,j] of the meshgrid is
\* dx[j], dy[i,j] is dy[i]; row 0 and column 0 of the code are row 1 and
\* column 1 here, row -1 and column -1 are row Ny and column Nx
CV_vol(o) ==
    [n \in Nodes(o) |->
        LET i == n[1]
            j == n[2]
            inner_i == 1 < i /\ i < o.Ny
            inner_j == 1 < j /\ j < o.Nx
        IN  CASE inner_i /\ inner_j -> (o.dx[j] + o.dx[j - 1]) * (o.dy[i] + o.dy[i - 1])
              [] i = 1 /\ j = 1 -> o.dx[1] * o.dy[1]
              [] i = 1 /\ inner_j -> (o.dx[j] + o.dx[j - 1]) * o.dy[1]
              [] inner_i /\ j = 1 -> o.dx[1] * (o.dy[i] + o.dy[i - 1])
              [] i = 1 /\ j = o.Nx -> o.dx[o.Nx] * o.dy[1]
              [] i = o.Ny /\ j = 1 -> o.dx[1] * o.dy[o.Ny]
              [] i = o.Ny /\ inner_j -> (o.dx[j] + o.dx[j - 1]) * o.dy[o.Ny]
              [] inner_i /\ j = o.Nx -> o.dx[o.Nx] * (o.dy[i] + o.dy[i - 1])
              [] i = o.Ny /\ j = o.Nx -> o.dx[o.Nx] * o.dy[o.Ny]]

\* vol=domain.CV_vol()
CallCV_vol ==
    /\ planar.pc = "meshed"
    /\ planar' = [planar EXCEPT !.vol = CV_vol(planar), !.pc = "volumes"]
    /\ UNCHANGED <<progvars, restartRun>>

\* a property of calcProp: the blend eta*v1+(1-eta)*v0 of a text setting, or
\* the number given, at every node
Prop(o, setting) ==
    [n \in Nodes(o) |->
        IF setting.str THEN o.eta * setting.v1 + (1 - o.eta) * setting.v0
        ELSE setting.v]

\* TwoDimPlanar.calcProp: return k, rho, Cv, D (k is a number in the settings
\* taken here, D is zero)
calcProp(o) ==
    <<Prop(o, o.k), Prop(o, o.rho), Prop(o, o.Cv), [n \in Nodes(o) |-> 0]>>

\* k,rho,Cv,D=domain.calcProp(); domain.E=rho*vol*Cv*T with T = T0 at every
\* node (E times 4, as vol is)
InitialiseEnergy ==
    /\ planar.pc = "volumes"
    /\ \E T0 \in Temperatures :
          LET p == calcProp(planar)
          IN  planar' = [planar EXCEPT
                 !.T0 = T0,
                 !.E = [n \in Nodes(planar) |-> p[2][n] * planar.vol[n] * p[3][n] * T0],
                 !.pc = "energy"]
    /\ UNCHANGED <<progvars, restartRun>>

\* a, b, c = vals: ValueError unless vals has n values
Unpack(vals, n) == IF Len(vals) = n THEN "none" ELSE "ValueError"

\* TwoDimPlanar.TempFromConserv: k,rho,Cv=self.calcProp();
\* return self.E/Cv/rho/self.CV_vol() (E and CV_vol both times 4)
PlanarTempFromConserv(o) ==
    LET p == calcProp(o)
        v == CV_vol(o)
    IN  IF Unpack(p, 3) /= "none"
        THEN [raised |-> Unpack(p, 3), T |-> <<>>]
        ELSE [raised |-> "none",
              T |-> [n \in Nodes(o) |-> ((o.E[n] \div p[3][n]) \div p[2][n]) \div v[n]]]

CallTempFromConserv ==
    /\ planar.pc = "energy"
    /\ LET r == PlanarTempFromConserv(planar)
       IN  planar' = [planar EXCEPT !.T = r.T, !.raised = r.raised,
                                    !.pc = IF r.raised = "none" THEN "temperature"
                                           ELSE "error"]
    /\ UNCHANGED <<progvars, restartRun>>

GeomNext == mesh \/ CallCV_vol \/ InitialiseEnergy \/ CallTempFromConserv

GeomSpec == GeomInit /\ [][GeomNext]_vars

\* ================================================================== claims
Terminal == {"report", "done", "exited"}
\* positions of the loop after the "Change boundary conditions" block of the
\* step counted by nt, or outside the loop
StepEnded == {"speed", "loop", "c_eta0", "ghosts", "advance", "report", "done"}
\* positions of the calls of global collectives, and the MPI call of each
CollectivePcs == {"c_dy", "c_eta0", "c_err", "c_T", "c_eta", "c_bc"}
CollectiveOf(p) ==
    CASE p = "c_dy" -> "compile_var(dY)"
      [] p \in {"c_eta0", "c_eta"} -> "compile_var(eta)"
      [] p = "c_err" -> "reduce,bcast(err)"
      [] p = "c_T" -> "compile_var(T)"
      [] p = "c_bc" -> "bcast(BCs_changed)"
      [] OTHER -> "none"

IgnitionSnapshots(w) == {i \in 1 .. Len(saved[w]) : saved[w][i].why = "ignition"}
SnapshotsOfStep(w, n) == {i \in 1 .. Len(saved[w]) : saved[w][i].nt = n}

\* C1: on every worker BCs_changed is false when the time loop starts, never
\* goes back from true to false, and the BC-switch block (with its ignition
\* snapshot) runs at most once, however often the criterion holds later.
C1_FlagOneShot ==
    /\ [](\A w \in Workers :
            /\ (pc[w] = "loop" /\ nt[w] = 0) => ~BCs_changed[w]
            /\ Cardinality(IgnitionSnapshots(w)) <= 1
            /\ (IgnitionSnapshots(w) /= {} => BCs_changed[w]))
    /\ [][\A w \in Workers : BCs_changed[w] => BCs_changed'[w]]_vars

\* a later step meets the criterion again with the flag already set
C1_Witness ==
    \E w \in Workers :
        /\ pc[w] = "ign" /\ BCs_changed[w] /\ IgnitionMet(w)
        /\ Cardinality(IgnitionSnapshots(w)) = 1

\* C2: two workers that have completed the same step hold the same value of
\* BCs_changed.
C2_FlagAgreed ==
    \A i, j \in Workers :
        (pc[i] \in StepEnded /\ pc[j] \in StepEnded /\ nt[i] = nt[j])
            => BCs_changed[i] = BCs_changed[j]

\* all workers have ended the step of the switch with the flag set, one of
\* them without a physical top edge
C2_Witness ==
    /\ \A w \in Workers : pc[w] = "loop" /\ nt[w] = 1 /\ BCs_changed[w]
    /\ \E w \in Workers : proc_top(w) >= 0

\* C3: the reduce and bcast leave on every worker the maximum of the codes
\* the advance calls of the step returned, and no worker goes on in the loop
\* after a step in which some worker's code was not zero.
C3_GlobalErrIsMax ==
    /\ AllAt({"check"}) =>
          \A w \in Workers : err[w] = MaxOf({local_err[v] : v \in Workers})
    /\ \A w, v \in Workers :
          (local_err[v] > 0 /\ nt[v] = nt[w] /\ pc[w] \notin {"c_err", "check"})
              => pc[w] \in {"report", "done"}

\* a worker whose own code was 0 has left the loop on another worker's code
C3_Witness ==
    \E w, v \in Workers :
        /\ pc[w] = "report" /\ local_err[w] = 0
        /\ pc[v] = "check" /\ local_err[v] = 2 /\ err[w] = 2

\* C4: after a step with a non-zero global code a worker has saved exactly one
\* snapshot in that step, tagged with the elapsed time of the step, has left
\* the loop with nt the number of that step, and no advance follows.
C4_AbortSavesOnceAndStops ==
    \A w \in Workers :
        (err[w] > 0 /\ pc[w] \notin {"c_err", "check"}) =>
            /\ pc[w] \in {"report", "done"}
            /\ Len(saved[w]) >= 1
            /\ saved[w][Len(saved[w])] =
                  [tag |-> FormatF(t[w]), nt |-> nt[w], why |-> "abort"]
            /\ Cardinality(SnapshotsOfStep(w, nt[w])) = 1
            /\ nt[w] = stepDt.step
            /\ nAdvance[w] = nt[w]

\* a run aborted in its second step
C4_Witness ==
    \A w \in Workers :
        pc[w] = "done" /\ err[w] > 0 /\ nt[w] = 2 /\ Len(saved[w]) >= 2

\* C5: once a step that is not aborted has ended with the configured criterion
\* met somewhere in the domain, every worker that has ended that step holds
\* BCs_changed = true, and its north BC is the configured right BC if its top
\* side is a physical edge; the same at every later position.
AfterSwitchOf(w) ==
    /\ ignitedAt > 0
    /\ \/ nt[w] > ignitedAt
       \/ (nt[w] = ignitedAt /\ pc[w] \in StepEnded)

C5_SwitchOnFirstIgnition ==
    \A w \in Workers :
        AfterSwitchOf(w) =>
            /\ BCs_changed[w]
            /\ (proc_top(w) < 0 => solverBCs[w].bc_north_E = InputBCs.bc_right_E)

\* ignition in step 1, seen on a top-edge worker in step 2
C5_Witness ==
    \E w \in Workers :
        /\ ignitedAt = 1 /\ nt[w] = 2 /\ pc[w] = "loop" /\ proc_top(w) < 0
        /\ BCs_changed[w] /\ solverBCs[w].bc_north_E = InputBCs.bc_right_E

\* C6: the run changes no boundary condition of a worker with a live top
\* neighbour, no boundary condition other than bc_north_E on any worker, and
\* never the BCs dictionary of the input file.
C6_OnlyNorthOfTopEdge ==
    \A w \in Workers :
        /\ BCs[w] = InputBCs
        /\ pc[w] \notin {"start", "exited"} =>
              /\ \A k \in BCKeys \ {"bc_north_E"} : solverBCs[w][k] = InputBCs[k]
              /\ proc_top(w) >= 0 => solverBCs[w] = InputBCs

\* the switch has happened; a worker below another one keeps its north BC
\* while a top-edge worker has the new one
C6_Witness ==
    \E w, v \in Workers :
        /\ proc_top(w) >= 0 /\ BCs_changed[w] /\ pc[w] = "loop"
        /\ solverBCs[w] = InputBCs
        /\ proc_top(v) < 0 /\ solverBCs[v].bc_north_E = InputBCs.bc_right_E

\* C7: a worker that has left the loop without a fatal error has saved a
\* snapshot tagged with the final elapsed time.
C7_FinalStatePersisted ==
    \A w \in Workers :
        (pc[w] \in {"report", "done"} /\ err[w] = 0) =>
            \E i \in 1 .. Len(saved[w]) : saved[w][i].tag = FormatF(t[w])

\* C8: an advance call is made only right after the one completed ghost
\* exchange of its step, whose neighbours have finished the previous step.
C8_ExchangeBeforeAdvance ==
    \A w \in Workers :
        /\ pc[w] = "advance" =>
              /\ nGhost[w] = nAdvance[w] + 1
              /\ \A v \in Neighbours(w) : nAdvance[v] >= nAdvance[w]
        /\ pc[w] /= "advance" => nGhost[w] = nAdvance[w]
        /\ nAdvance[w] = nt[w]

\* a worker about to advance in its second step, after its second exchange
C8_Witness ==
    \E w \in Workers : pc[w] = "advance" /\ nGhost[w] = 2 /\ nAdvance[w] = 1

\* C9: workers waiting in global collectives wait in the same MPI call, no
\* worker waits for one that has left the loop, and the run is never stuck
\* before every worker has ended.
C9_CollectivesMatch ==
    /\ \A i, j \in Workers :
          (pc[i] \in CollectivePcs /\ pc[j] \in CollectivePcs)
              => CollectiveOf(pc[i]) = CollectiveOf(pc[j])
    /\ \A i, j \in Workers :
          pc[i] \in CollectivePcs \cup {"ghosts"} => pc[j] \notin Terminal
    /\ (\A w \in Workers : pc[w] \in {"done", "exited"}) \/ ENABLED Next

\* all workers are in the conditional compile_var(eta) at the top of the loop
C9_Witness == AllAt({"c_eta0"})

\* C10: when MPI_discretize reports an error on some worker, no worker builds
\* the solver, saves a snapshot or executes a time step.
C10_NoRunAfterBadDecomposition ==
    (\E w \in Workers : MPI_discretize(w) > 0) =>
        \A v \in Workers :
            /\ pc[v] \in {"start", "exited"}
            /\ solverBCs[v] = NoBCs
            /\ saved[v] = <<>>
            /\ nGhost[v] = 0 /\ nAdvance[v] = 0 /\ nt[v] = 0

\* the decomposition has failed and every worker has exited
C10_Witness ==
    /\ \E w \in Workers : MPI_discretize(w) > 0
    /\ AllAt({"exited"})

\* the process has got past the restart block with a restart marker
Resumed == restartRun.pc \in {"initialised", "solve"} /\ restartRun.Restart /= None
\* times t*1000, in millionths, of the snapshots the directory holds
Persisted == {m \in SnapshotTimes : FileT(TagText(m)) \in restartRun.dir}

\* C11: on a restart request for which the directory holds no snapshot that
\* matches the marker, the program stops before anything is initialised from
\* a snapshot; it never goes on from another snapshot such as the time-zero
\* one.  The code falls through the scan with time_max still '0.000000' and
\* loads that snapshot when it is there.
C11_MissingSnapshotStops ==
    Resumed => \E name \in restartRun.dir : Matches(name, restartRun.Restart)

\* C12: on a restart request with marker M the snapshot loaded is the latest
\* persisted one whose time is at or before M, whatever the order of the
\* directory listing, and the clock starts from its time.  The code takes
\* the first name of the listing that contains the digits of M.
C12_LoadsLatestAtOrBefore ==
    (restartRun.pc = "solve" /\ restartRun.Restart /= None) =>
        LET upto == {m \in Persisted : m <= restartRun.Restart * Mega}
        IN  /\ upto /= {}
            /\ float(restartRun.T) = MaxOf(upto)
            /\ restartRun.t = <<MaxOf(upto), Mega * TagFactor>>

\* C13: one mechanism governs the output cadence: never are both the
\* step-count interval and the elapsed-time interval non-zero, and never do
\* both tests of the periodic output hold
C13_OneCadence ==
    \A w \in Workers :
        /\ output_data_nt[w] = 0 \/ output_data_t[w][1] = 0
        /\ ~(DueBySteps(w) /\ DueByTime(w))

\* a process on the elapsed-time cadence has written a periodic snapshot
C13_Witness ==
    \E w \in Workers :
        /\ output_data_t[w][1] /= 0
        /\ output_data_nt[w] = 0
        /\ \E k \in 1 .. Len(saved[w]) : saved[w][k].why = "periodic"
        /\ pc[w] = "c_T"

\* positions inside the loop body up to the call of the solver
BeforeAdvance == {"c_eta0", "ghosts", "advance"}
\* the budgets of the input file hold at the position of process w
WithinBudgets(w) ==
    /\ cfg.total_time_steps /= None => nt[w] < cfg.total_time_steps
    /\ cfg.total_time /= None => t[w] < cfg.total_time

\* C14: a step is executed only while nt is below the step budget and t below
\* the time budget, no process executes more steps than the step budget, and
\* every process eventually leaves the loop
C14_BudgetsAndTermination ==
    /\ [](\A w \in Workers :
            /\ pc[w] \in BeforeAdvance => WithinBudgets(w)
            /\ cfg.total_time_steps /= None => nAdvance[w] <= cfg.total_time_steps)
    /\ <>(\A w \in Workers : pc[w] \in Terminal)

\* a process has left the loop on the step budget after a last full step
C14_Witness ==
    \E w \in Workers :
        /\ pc[w] = "report"
        /\ err[w] = 0
        /\ cfg.total_time_steps /= None
        /\ nAdvance[w] = cfg.total_time_steps
        /\ nAdvance[w] = MaxSteps

\* positions of the time loop
LoopPcs == {"loop", "c_eta0", "ghosts", "advance", "c_err", "check", "c_T",
            "c_eta", "ign", "c_bc", "speed"}
\* at the two decisions of a step, the step is a quiet one for process w: no
\* error and no output due at the error check, no ignition at the ignition
\* check
Quiet(w) ==
    /\ pc[w] = "check" => err[w] = 0 /\ ~(DueBySteps(w) \/ DueByTime(w))
    /\ pc[w] = "ign" => ~IgnitionMet(w)
\* the run of process w has ended after one step, which was quiet: no error,
\* the first output not due (the first elapsed-time interval is number 1) and
\* no ignition
QuietOneStepRun(w) ==
    /\ pc[w] \in {"report", "done"}
    /\ nAdvance[w] = 1
    /\ err[w] = 0
    /\ output_data_nt[w] /= 1
    /\ output_data_t[w][1] /= 0 =>
          dt[w] * output_data_t[w][2] < output_data_t[w][1]
    /\ ignitedAt /= 1

\* C15: a step without error, without output due and without ignition
\* changes only the clock: nt grows by 1 and t by the dt returned, in the
\* advance and nowhere else; no snapshot is saved, no boundary condition and
\* not BCs_changed changes.  A run of one such step ends with nt = 1, t = dt,
\* the initial snapshot only and BCs_changed false.
C15_QuietStepFrame ==
    /\ [](\A w \in Workers :
            QuietOneStepRun(w) =>
                /\ nt[w] = 1 /\ t[w] = dt[w]
                /\ Len(saved[w]) = 1 /\ saved[w][1].why = "initial"
                /\ ~BCs_changed[w]
                /\ solverBCs[w] = BCs[w])
    /\ [][\A w \in Workers :
            pc[w] \in LoopPcs =>
                /\ (nt'[w] /= nt[w] \/ t'[w] /= t[w]) =>
                      /\ pc[w] = "advance"
                      /\ nt'[w] = nt[w] + 1
                      /\ t'[w] = t[w] + dt'[w]
                /\ Quiet(w) =>
                      /\ saved'[w] = saved[w]
                      /\ solverBCs'[w] = solverBCs[w]
                      /\ BCs'[w] = BCs[w]
                      /\ BCs_changed'[w] = BCs_changed[w]]_vars

\* a run of one quiet step has ended
C15_Witness ==
    \E w \in Workers : QuietOneStepRun(w) /\ nt[w] = 1 /\ Len(saved[w]) = 1

\* sum of the elements lo .. hi of a sequence
RECURSIVE SeqSum(_, _, _)
SeqSum(q, lo, hi) == IF lo > hi THEN 0 ELSE q[lo] + SeqSum(q, lo + 1, hi)

\* the widths d and coordinates c of an axis of length len with n nodes are
\* a mesh of it: the n-1 intervals sum to len, the last width repeats the
\* one before it, and c is the prefix sum of d from 0
IsMeshOf(d, c, len, n) ==
    /\ SeqSum(d, 1, n - 1) = len
    /\ d[n] = d[n - 1]
    /\ \A k \in 1 .. n : c[k] = SeqSum(d, 1, k - 1)
    /\ c[n] = len

\* C16: for every biasing policy and every node count from 3, even or odd,
\* mesh() gives widths whose Nx-1 intervals sum to L, with dx[Nx-1] = dx[Nx-2]
\* and x the prefix sum of dx from 0; the same for dy, Ny and W.  With the
\* two-way policies the code fills (Nx-1)/2 values into int(Nx/2) places:
\* for Nx = 4 one value is repeated, for even Nx from 6 the assignment raises.
C16_MeshSumsToLength ==
    planar.pc \notin {"none", "constructed"} =>
        /\ planar.isMeshed
        /\ IsMeshOf(planar.dx, planar.x, planar.L, planar.Nx)
        /\ IsMeshOf(planar.dy, planar.y, planar.W, planar.Ny)

\* CV_vol has been called on a uniform mesh
UniformVolumes ==
    /\ planar.pc \in {"volumes", "energy", "temperature", "error"}
    /\ planar.isMeshed
    /\ planar.pc = "error" => planar.T0 /= 0
    /\ planar.xbias[1] = "None" /\ planar.ybias[1] = "None"

\* C17: on a uniform mesh of any size from 3 x 3 the control volumes of
\* CV_vol sum to L*W: an interior node has dx*dy, an edge node half and a
\* corner node a quarter of it (vol holds the volumes times 4)
C17_VolumesSumToArea ==
    UniformVolumes =>
        LET o == planar
            dxdy == (o.L \div (o.Nx - 1)) * (o.W \div (o.Ny - 1))
            share(k, n) == IF k = 1 \/ k = n THEN 1 ELSE 2
        IN  /\ SumOver(o.vol, Nodes(o)) = 4 * o.L * o.W
            /\ \A n \in Nodes(o) :
                  o.vol[n] = dxdy * share(n[1], o.Ny) * share(n[2], o.Nx)

\* CV_vol has returned for a uniform mesh of the largest size, not square
C17_Witness ==
    /\ UniformVolumes
    /\ planar.pc = "volumes"
    /\ planar.Nx = MaxNodes /\ planar.Ny = 3

\* C18: with E = rho*vol*Cv*T0 from the values of calcProp, TempFromConserv
\* returns T0 at every node, for every property setting.  The code unpacks
\* the four values of calcProp into three names, which raises.
C18_TempInvertsEnergy ==
    (planar.pc = "temperature" \/ (planar.pc = "error" /\ planar.T0 /= 0)) =>
        /\ planar.raised = "none"
        /\ \A n \in Nodes(planar) : planar.T[n] = planar.T0

\* positions of a step after its periodic output, or after the loop
AfterOutput == {"c_T", "c_eta", "ign", "c_bc", "speed", "loop", "report", "done"}
\* in its last step, t of process w has passed a multiple m*d, m >= 1, of
\* the interval d = total_time/Number_Data_Output: t-dt < m*d <= t
PassedMultiple(w) ==
    \E m \in 1 .. (t[w] * cfg.Number_Data_Output) :
        /\ (t[w] - dt[w]) * cfg.Number_Data_Output < m * cfg.total_time
        /\ m * cfg.total_time <= t[w] * cfg.Number_Data_Output

\* C19: on the elapsed-time cadence, every step without error in which t
\* passes a multiple of the interval d saves a periodic snapshot, whatever
\* the step sizes.  The code tests the one multiple d*t_inc and moves t_inc
\* on by one per snapshot: after a step that passes two multiples, t-dt is
\* never again below d*t_inc.
C19_SnapshotAtEveryCrossing ==
    \A w \in Workers :
        (/\ cfg.total_time_steps = None
         /\ pc[w] \in AfterOutput
         /\ nt[w] > 0
         /\ err[w] = 0
         /\ PassedMultiple(w)) =>
            \E k \in 1 .. Len(saved[w]) :
                saved[w][k].why = "periodic" /\ saved[w][k].nt = nt[w]

\* the error code of the step of process w is not yet known to be zero: the
\* solver has returned and the process is before or at the test of the
\* broadcast code, or it has left the loop on a fatal code
ErrorUndecided(w) == pc[w] \in {"c_err", "check"}
Aborted(w) == pc[w] \in {"report", "done"} /\ err[w] > 0

\* C20: t and nt are incremented only once the broadcast error code of the
\* step is known to be zero: until then, and after an abort, nt counts the
\* steps before this one, and a run that aborts in its first step has t and
\* nt at their initial values.  The code increments both right after the
\* solver returns, before the reduction.
C20_ClockAfterErrorCheck ==
    \A w \in Workers :
        /\ (ErrorUndecided(w) \/ Aborted(w)) => nt[w] = nAdvance[w] - 1
        /\ (Aborted(w) /\ nAdvance[w] = 1) => t[w] = ParseTag(time_max)

\* the steps of process w that began with BCs_changed true, in which a first
\* sample v_0 could be taken: those after the step of the ignition snapshot
StepsSinceSwitch(w) ==
    IF IgnitionSnapshots(w) = {} THEN 0
    ELSE nt[w] - saved[w][CHOOSE i \in IgnitionSnapshots(w) : TRUE].nt

\* C21: every contribution to the wave speed v, counted in N, comes from a
\* first sample v_0 and a second sample v_1 of the same step, so there are no
\* more contributions than steps that began with BCs_changed true, and none
\* in the step in which BCs_changed becomes true.  The code takes the second
\* point in that step too, against the v_0 = 0 of the initialisation.
C21_SpeedFromPairedSamples ==
    \A w \in Workers :
        /\ wave[w].N <= StepsSinceSwitch(w)
        /\ wave[w].N = 0 => wave[w].v = 0

\* the boundary conditions of the solver of process w before and after the
\* change on ignition
SwitchedBCs(w) ==
    [BCs[w] EXCEPT !.bc_north_E = IF proc_top(w) < 0 THEN BCs[w].bc_right_E ELSE @]
\* the state the ignition processing of the steps before the last one has
\* left on process w: nothing if no ignition snapshot was written, else the
\* flag, the changed boundary conditions and, on rank 0, the ignition time
IgnitionStateBefore(w) ==
    IF IgnitionSnapshots(w) = {}
    THEN /\ ~BCs_changed[w]
         /\ solverBCs[w] = BCs[w]
         /\ tign[w] = 0
    ELSE LET i == CHOOSE k \in IgnitionSnapshots(w) : TRUE
         IN  /\ saved[w][i].nt < nt[w]
             /\ BCs_changed[w]
             /\ solverBCs[w] = SwitchedBCs(w)
             /\ tign[w] = IF w = 0 THEN ParseTag(saved[w][i].tag) ELSE 0

\* C22: a step that ends in a fatal error does no ignition processing: no
\* boundary condition is overwritten, BCs_changed and tign keep the values
\* they had at the start of the step, and no periodic or ignition snapshot
\* of that step is written beside the abort snapshot, also when the ignition
\* criterion holds in the aborted state
C22_AbortSkipsIgnition ==
    /\ [](\A w \in Workers :
            Aborted(w) =>
                /\ IgnitionStateBefore(w)
                /\ \A k \in SnapshotsOfStep(w, nt[w]) : saved[w][k].why = "abort")
    /\ [][\A w \in Workers :
            (pc[w] = "check" /\ err[w] > 0) =>
                /\ BCs_changed'[w] = BCs_changed[w]
                /\ solverBCs'[w] = solverBCs[w]
                /\ tign'[w] = tign[w]
                /\ t_inc'[w] = t_inc[w]
                /\ \/ saved'[w] = saved[w]
                   \/ saved'[w] = Append(saved[w],
                         [tag |-> FormatF(t[w]), nt |-> nt[w], why |-> "abort"])]_vars

\* every process has aborted in a state in which the ignition criterion
\* holds, with no change of boundary conditions made
C22_Witness ==
    /\ CriterionHolds
    /\ \A w \in Workers :
          /\ Aborted(w)
          /\ ~BCs_changed[w]
          /\ IgnitionSnapshots(w) = {}
          /\ solverBCs[w] = BCs[w]

====
